---- MODULE Spec2Model ----
(***************************************************************************)
(* A model of scripts/process_oflc_data.py: the batch run that reads        *)
(* Geography.csv, oes_soc_occs.csv and ALC_Export.csv and writes            *)
(* wages.json, geography.json, counties.json and occupations.json.          *)
(*                                                                          *)
(* A Python dict is modelled as a sequence of [k, v] entries with distinct  *)
(* keys, in insertion order (the order dict iteration and json.dump use).   *)
(* A csv.DictReader row is a record of its fields; the header the reader    *)
(* took from the file's first line is the set of columns a row can be       *)
(* indexed with (any other column raises KeyError).                         *)
(***************************************************************************)
EXTENDS Integers, Sequences, FiniteSets, TLC

VARIABLES
    pc,             \* where main() is
    err,            \* "" or the name of the uncaught exception that ended the run
    log,            \* the stages main() has completed, in order
    files,          \* the output directory: the files opened for writing, in order
    geoCols,        \* header of Geography.csv
    geoRows,        \* rows of Geography.csv read so far
    geography,      \* load_geography: area -> [areaName, state, counties]
    county_to_area, \* load_geography: "county|state" -> list of areas
    occCols,        \* header of oes_soc_occs.csv
    occRows,        \* rows of oes_soc_occs.csv read so far
    occupations,    \* load_occupations: code -> title
    wageCols,       \* header of ALC_Export.csv
    wageRows,       \* rows of ALC_Export.csv read so far
    wages,          \* load_wages: area -> soc -> [l1, l2, l3, l4]
    common_socs,    \* get_common_occupations(wages)
    wage_lookup,    \* create_wage_lookup_file(...)
    county_index,   \* create_county_search_index(geography)
    occ_list        \* the list written to occupations.json

vars == <<pc, err, log, files, geoCols, geoRows, geography, county_to_area,
          occCols, occRows, occupations, wageCols, wageRows, wages,
          common_socs, wage_lookup, county_index, occ_list>>

----------------------------------------------------------------------------
(* Bounds of the model *)

MaxGeoRows == 3
MaxOccRows == 2
MaxWageRows == 2
MaxRunWageRows == 3
BigCodes == 101
BigExtraRows == 1

(* Program constants *)

HOURS_PER_YEAR == 2080
TopN == 100

----------------------------------------------------------------------------
(* Python dicts: insertion-ordered, keys distinct *)

Range(s) == {s[i] : i \in 1..Len(s)}

Keys(d) == [i \in 1..Len(d) |-> d[i].k]

KeySet(d) == {d[i].k : i \in 1..Len(d)}

Has(d, key) == \E i \in 1..Len(d) : d[i].k = key

Get(d, key) == d[CHOOSE i \in 1..Len(d) : d[i].k = key].v

\* d[key] = val: a new key goes last, an existing key keeps its place
Put(d, key, val) ==
    IF Has(d, key)
    THEN [i \in 1..Len(d) |-> IF d[i].k = key THEN [k |-> key, v |-> val] ELSE d[i]]
    ELSE Append(d, [k |-> key, v |-> val])

----------------------------------------------------------------------------
(* load_geography *)

GeoColumns == {"Area", "AreaName", "StateAb", "CountyTownName"}

\* f"{county}|{state}"
CountyKey(county, state) == county \o "|" \o state

\* the entry rebuilt from every row: the last AreaName/StateAb seen would win
GeographyAddLastWins(geo, row) ==
    LET old == IF Has(geo, row.Area) THEN Get(geo, row.Area).counties ELSE <<>>
    IN  Put(geo, row.Area, [areaName |-> row.AreaName, state |-> row.StateAb,
                            counties |-> Append(old, row.CountyTownName)])

\* lines 33-39: the entry made at the area's first row, the county appended
GeographyAdd(geo, row) ==
    LET g1 == IF Has(geo, row.Area) THEN geo
              ELSE Put(geo, row.Area, [areaName |-> row.AreaName,
                                       state |-> row.StateAb,
                                       counties |-> <<>>])
        e  == Get(g1, row.Area)
    IN  Put(g1, row.Area, [e EXCEPT !.counties = Append(@, row.CountyTownName)])

\* lines 42-44: county_to_area is a defaultdict(list); the area is appended once
CountyToAreaAdd(c2a, row) ==
    LET key == CountyKey(row.CountyTownName, row.StateAb)
        c1  == IF Has(c2a, key) THEN c2a ELSE Put(c2a, key, <<>>)
        lst == Get(c1, key)
    IN  IF row.Area \in Range(lst) THEN c1 ELSE Put(c1, key, Append(lst, row.Area))

----------------------------------------------------------------------------
(* load_occupations *)

OccColumns == {"soccode", "Title"}

\* line 58: occupations[code] = title
OccupationsAdd(occs, row) == Put(occs, row.soccode, row.Title)

----------------------------------------------------------------------------
(* float(): the text of a CSV field to a number.  A field is                *)
(* [kind |-> "str", text |-> <<characters>>], or [kind |-> "None"] for a    *)
(* field the row is too short to hold (DictReader's restval).  The grammar  *)
(* modelled: surrounding blanks, a sign, digits with at most one point,     *)
(* "nan" and "inf"; a finite value is the exact fraction num/den.           *)

Str(t) == [kind |-> "str", text |-> t]

NoneField == [kind |-> "None", text |-> <<>>]

Digits == <<"0", "1", "2", "3", "4", "5", "6", "7", "8", "9">>

IsDigit(c) == c \in Range(Digits)

DigitVal(c) == (CHOOSE i \in 1..10 : Digits[i] = c) - 1

RECURSIVE DigitsVal(_)
DigitsVal(s) ==
    IF s = <<>> THEN 0
    ELSE DigitsVal(SubSeq(s, 1, Len(s) - 1)) * 10 + DigitVal(s[Len(s)])

RECURSIVE Pow10(_)
Pow10(n) == IF n = 0 THEN 1 ELSE 10 * Pow10(n - 1)

RECURSIVE Strip(_)
Strip(s) ==
    IF s = <<>> THEN s
    ELSE IF s[1] = " " THEN Strip(Tail(s))
    ELSE IF s[Len(s)] = " " THEN Strip(SubSeq(s, 1, Len(s) - 1))
    ELSE s

ParseError == [kind |-> "error", num |-> 0, den |-> 1]

ParseFloat(text) ==
    LET s      == Strip(text)
        signed == s # <<>> /\ s[1] \in {"-", "+"}
        sign   == IF signed /\ s[1] = "-" THEN -1 ELSE 1
        body   == IF signed THEN Tail(s) ELSE s
        points == {i \in 1..Len(body) : body[i] = "."}
        pt     == IF points = {} THEN Len(body) + 1 ELSE CHOOSE i \in points : TRUE
        ip     == SubSeq(body, 1, pt - 1)
        fp     == SubSeq(body, pt + 1, Len(body))
    IN  IF body = <<"n", "a", "n">> THEN [kind |-> "nan", num |-> 0, den |-> 1]
        ELSE IF body = <<"i", "n", "f">> THEN [kind |-> "inf", num |-> sign, den |-> 1]
        ELSE IF \/ Cardinality(points) > 1
                \/ Len(ip) + Len(fp) = 0
                \/ \E i \in 1..Len(ip) : ~IsDigit(ip[i])
                \/ \E i \in 1..Len(fp) : ~IsDigit(fp[i])
        THEN ParseError
        ELSE [kind |-> "num",
              num  |-> sign * (DigitsVal(ip) * Pow10(Len(fp)) + DigitsVal(fp)),
              den  |-> Pow10(Len(fp))]

\* rounding that sends a tie upwards
RoundHalfUp(n, d) ==
    LET q == n \div d
        r == n % d
    IN  IF 2 * r < d THEN q ELSE q + 1

\* round(): the integer nearest to n/d, a tie going to the even one
RoundHalfEven(n, d) ==
    LET q == n \div d
        r == n % d
    IN  IF 2 * r < d THEN q
        ELSE IF 2 * r > d THEN q + 1
        ELSE IF q % 2 = 0 THEN q ELSE q + 1

----------------------------------------------------------------------------
(* load_wages *)

WageColumns == {"Area", "SocCode", "Level1", "Level2", "Level3", "Level4"}

LevelColumns == <<"Level1", "Level2", "Level3", "Level4">>

\* round(float(row['LevelN']) * HOURS_PER_YEAR): the value, or the exception raised
ToAnnual(cols, row, n) ==
    LET field == row.levels[n]
        f     == ParseFloat(field.text)
    IN  IF LevelColumns[n] \notin cols THEN [exc |-> "KeyError", val |-> 0]
        ELSE IF field.kind = "None" THEN [exc |-> "TypeError", val |-> 0]
        ELSE IF f.kind = "error" THEN [exc |-> "ValueError", val |-> 0]
        ELSE IF f.kind = "nan" THEN [exc |-> "ValueError", val |-> 0]
        ELSE IF f.kind = "inf" THEN [exc |-> "OverflowError", val |-> 0]
        ELSE [exc |-> "", val |-> RoundHalfEven(f.num * HOURS_PER_YEAR, f.den)]

\* lines 75-78: the four conversions in order; the first exception ends them
ConvertLevels(cols, row) ==
    LET r      == [n \in 1..4 |-> ToAnnual(cols, row, n)]
        failed == {n \in 1..4 : r[n].exc # ""}
        first  == CHOOSE n \in failed : \A m \in failed : n <= m
    IN  [exc    |-> IF failed = {} THEN "" ELSE r[first].exc,
         levels |-> [l1 |-> r[1].val, l2 |-> r[2].val, l3 |-> r[3].val, l4 |-> r[4].val]]

\* line 79: except (ValueError, KeyError): continue
Caught(exc) == exc \in {"ValueError", "KeyError"}

\* lines 82-87: wages[area][soc] = {...}, wages a defaultdict(dict)
WagesStore(w, area, soc, levels) ==
    LET w1 == IF Has(w, area) THEN w ELSE Put(w, area, <<>>)
    IN  Put(w1, area, Put(Get(w1, area), soc, levels))

----------------------------------------------------------------------------
(* get_common_occupations *)

Min(a, b) == IF a <= b THEN a ELSE b

\* lines 96-97: the codes in the order the two loops visit them
RECURSIVE Visited(_, _)
Visited(w, a) == IF a > Len(w) THEN <<>> ELSE Keys(w[a].v) \o Visited(w, a + 1)

\* line 98: soc_counts[soc] += 1 enters a code at its first visit and counts
\* its visits
CountSocs(w) ==
    LET codes    == Visited(w, 1)
        first(i) == \A j \in 1..(i - 1) : codes[j] # codes[i]
        firsts   == SelectSeq([i \in 1..Len(codes) |-> i], first)
    IN  [n \in 1..Len(firsts) |->
            [k |-> codes[firsts[n]],
             v |-> Cardinality({j \in 1..Len(codes) : codes[j] = codes[firsts[n]]})]]

\* line 101: sorted(..., key=lambda x: -x[1]) is stable: an item goes after
\* the items of greater count and after the earlier items of equal count
Place(items, i) ==
    1 + Cardinality({j \in 1..Len(items) : items[j].v > items[i].v})
      + Cardinality({j \in 1..(i - 1) : items[j].v = items[i].v})

SortByCount(items) ==
    LET place == [i \in 1..Len(items) |-> Place(items, i)]
    IN  [p \in 1..Len(items) |-> items[CHOOSE i \in 1..Len(items) : place[i] = p]]

\* every code kept, however many
TopAll(socs) == socs

\* line 102: sorted_socs[:100]
Top(socs) == SubSeq(socs, 1, Min(TopN, Len(socs)))

\* the codes in the order they were counted, the sort left out
GetCommonOccupationsUnsorted(w) == Top(Keys(CountSocs(w)))

\* lines 94-102
GetCommonOccupations(w) == Top(Keys(SortByCount(CountSocs(w))))

----------------------------------------------------------------------------
(* create_wage_lookup_file *)

\* lines 113-117: the area's selected codes, each as [l1, l2, l3, l4]
AreaWages(soc_data, selected) ==
    LET keep(e) == e.k \in selected
        kept    == SelectSeq(soc_data, keep)
    IN  [i \in 1..Len(kept) |->
            [k |-> kept[i].k,
             v |-> <<kept[i].v.l1, kept[i].v.l2, kept[i].v.l3, kept[i].v.l4>>]]

\* an area kept whether or not it has a selected code
KeepAnyArea(area_wages) == TRUE

\* line 119: if area_wages
KeepArea(area_wages) == area_wages # <<>>

\* lines 110-122
CreateWageLookupFile(w, selected) ==
    LET all     == [a \in 1..Len(w) |-> [k |-> w[a].k, v |-> AreaWages(w[a].v, selected)]]
        keep(e) == KeepArea(e.v)
    IN  SelectSeq(all, keep)

----------------------------------------------------------------------------
(* create_county_search_index *)

\* f"{county}, {state}"
SearchKey(county, state) == county \o ", " \o state

\* an index that keeps the first entry of a key
IndexPutFirstWins(index, key, entry) ==
    IF Has(index, key) THEN index ELSE Put(index, key, entry)

\* line 137: index[key] = {...}
IndexPut(index, key, entry) == Put(index, key, entry)

\* lines 132-142: the areas in the mapping's order, each area's counties in order
RECURSIVE CountyIndexFrom(_, _, _, _)
CountyIndexFrom(geo, a, i, index) ==
    IF a > Len(geo) THEN index
    ELSE IF i > Len(geo[a].v.counties) THEN CountyIndexFrom(geo, a + 1, 1, index)
    ELSE LET data   == geo[a].v
             county == data.counties[i]
         IN  CountyIndexFrom(geo, a, i + 1,
                 IndexPut(index, SearchKey(county, data.state),
                          [area |-> geo[a].k, areaName |-> data.areaName,
                           state |-> data.state, county |-> county]))

CreateCountySearchIndex(geo) == CountyIndexFrom(geo, 1, 1, <<>>)

----------------------------------------------------------------------------
(* main, line 191: the occupation list *)

\* every selected code listed, titled or not
ListedAlways(occs, soc) == TRUE

\* line 191: if soc in occupations
Listed(occs, soc) == Has(occs, soc)

\* line 191: {'code': soc, 'title': occupations.get(soc, soc)}
OccList(common, occs) ==
    LET keep(soc) == Listed(occs, soc)
        kept      == SelectSeq(common, keep)
    IN  [i \in 1..Len(kept) |->
            [code  |-> kept[i],
             title |-> IF Has(occs, kept[i]) THEN Get(occs, kept[i]) ELSE kept[i]]]

----------------------------------------------------------------------------
(* main: the order of the stages (lines 152-194) *)

Stages ==
    <<"open_geography", "read_geography", "open_occupations", "read_occupations",
      "open_wages", "read_wages", "select",
      "write_wages", "write_geography", "write_counties", "write_occupations",
      "done">>

\* an order that writes geography.json as soon as the geography is loaded
StagesEarlyWrite ==
    <<"open_geography", "read_geography", "write_geography",
      "open_occupations", "read_occupations", "open_wages", "read_wages", "select",
      "write_wages", "write_counties", "write_occupations", "done">>

Following(order, stage) ==
    order[(CHOOSE i \in 1..Len(order) : order[i] = stage) + 1]

StageAfterEarlyWrite(stage) == Following(StagesEarlyWrite, stage)

\* the stage main() goes to when a stage is done
StageAfter(stage) == Following(Stages, stage)

OpenStages == {"open_geography", "open_occupations", "open_wages"}

WriteStages == {"write_wages", "write_geography", "write_counties", "write_occupations"}

FileOf(stage) ==
    CASE stage = "write_wages"       -> "wages.json"
      [] stage = "write_geography"   -> "geography.json"
      [] stage = "write_counties"    -> "counties.json"
      [] stage = "write_occupations" -> "occupations.json"

ctlVars  == <<pc, err, log, files>>
geoVars  == <<geoCols, geoRows, geography, county_to_area>>
occVars  == <<occCols, occRows, occupations>>
wageVars == <<wageCols, wageRows, wages>>
outVars  == <<common_socs, wage_lookup, county_index, occ_list>>

Init ==
    /\ pc = "open_geography"
    /\ err = ""
    /\ log = <<>>
    /\ files = <<>>
    /\ geoCols = {} /\ geoRows = <<>> /\ geography = <<>> /\ county_to_area = <<>>
    /\ occCols = {} /\ occRows = <<>> /\ occupations = <<>>
    /\ wageCols = {} /\ wageRows = <<>> /\ wages = <<>>
    /\ common_socs = <<>> /\ wage_lookup = <<>> /\ county_index = <<>>
    /\ occ_list = <<>>

\* an uncaught exception ends the run
Abort(exc) ==
    /\ pc' = "aborted"
    /\ err' = exc
    /\ UNCHANGED <<log, files>>

Advance(event) ==
    /\ pc' = StageAfter(pc)
    /\ log' = Append(log, event)
    /\ UNCHANGED <<err, files>>

(* The headers an input file may have: every column, or one missing *)
GeoHeaders == {GeoColumns, GeoColumns \ {"StateAb"}}
OccHeaders == {OccColumns, OccColumns \ {"Title"}}
WageHeaders == {WageColumns, WageColumns \ {"Level3"}, WageColumns \ {"SocCode"}}

\* lines 25, 53, 67: open() of an input file that is not there
OpenFails ==
    /\ pc \in OpenStages
    /\ Abort("FileNotFoundError")
    /\ UNCHANGED <<geoVars, occVars, wageVars, outVars>>

\* a DictReader takes its header from the file when its first row is asked for
Header(read, cols, headers) == IF read = <<>> THEN headers ELSE {cols}

\* lines 25-26
OpenGeography ==
    /\ pc = "open_geography"
    /\ pc' = StageAfter(pc)
    /\ UNCHANGED <<err, log, files, geoVars, occVars, wageVars, outVars>>

\* lines 27-44: one row of Geography.csv
LoadGeographyRow(rows) ==
    /\ pc = "read_geography"
    /\ \E row \in rows, cols \in Header(geoRows, geoCols, GeoHeaders) :
        /\ geoRows' = Append(geoRows, row)
        /\ geoCols' = cols
        /\ IF GeoColumns \subseteq cols
           THEN /\ geography' = GeographyAdd(geography, row)
                /\ county_to_area' = CountyToAreaAdd(county_to_area, row)
                /\ UNCHANGED ctlVars
           ELSE /\ Abort("KeyError")
                /\ UNCHANGED <<geography, county_to_area>>
    /\ UNCHANGED <<occVars, wageVars, outVars>>

\* line 46: the file is exhausted
GeographyLoaded ==
    /\ pc = "read_geography"
    /\ Advance("geography")
    /\ UNCHANGED <<geoVars, occVars, wageVars, outVars>>

\* lines 53-54
OpenOccupations ==
    /\ pc = "open_occupations"
    /\ pc' = StageAfter(pc)
    /\ UNCHANGED <<err, log, files, geoVars, occVars, wageVars, outVars>>

\* lines 55-58: one row of oes_soc_occs.csv
LoadOccupationRow(rows) ==
    /\ pc = "read_occupations"
    /\ \E row \in rows, cols \in Header(occRows, occCols, OccHeaders) :
        /\ occRows' = Append(occRows, row)
        /\ occCols' = cols
        /\ IF OccColumns \subseteq cols
           THEN /\ occupations' = OccupationsAdd(occupations, row)
                /\ UNCHANGED ctlVars
           ELSE /\ Abort("KeyError")
                /\ UNCHANGED occupations
    /\ UNCHANGED <<geoVars, wageVars, outVars>>

\* line 60
OccupationsLoaded ==
    /\ pc = "read_occupations"
    /\ Advance("occupations")
    /\ UNCHANGED <<geoVars, occVars, wageVars, outVars>>

\* lines 67-68
OpenWages ==
    /\ pc = "open_wages"
    /\ pc' = StageAfter(pc)
    /\ UNCHANGED <<err, log, files, geoVars, occVars, wageVars, outVars>>

\* lines 69-87: one row of ALC_Export.csv
LoadWageRow(rows) ==
    /\ pc = "read_wages"
    /\ \E row \in rows, cols \in Header(wageRows, wageCols, WageHeaders) :
        LET c == ConvertLevels(cols, row)
        IN  /\ wageRows' = Append(wageRows, row)
            /\ wageCols' = cols
            /\ IF ~({"Area", "SocCode"} \subseteq cols)
               THEN Abort("KeyError") /\ UNCHANGED wages
               ELSE IF c.exc = ""
               THEN /\ wages' = WagesStore(wages, row.Area, row.SocCode, c.levels)
                    /\ UNCHANGED ctlVars
               ELSE IF Caught(c.exc)
               THEN UNCHANGED <<wages, ctlVars>>
               ELSE Abort(c.exc) /\ UNCHANGED wages
    /\ UNCHANGED <<geoVars, occVars, outVars>>

\* line 89
WagesLoaded ==
    /\ pc = "read_wages"
    /\ Advance("wages")
    /\ UNCHANGED <<geoVars, occVars, wageVars, outVars>>

\* line 164
SelectOccupations ==
    /\ pc = "select"
    /\ common_socs' = GetCommonOccupations(wages)
    /\ Advance("select")
    /\ UNCHANGED <<wage_lookup, county_index, occ_list, geoVars, occVars, wageVars>>

\* lines 171, 184, 191: what a write stage computes before it opens its file
Prepare(stage) ==
    /\ wage_lookup' = IF stage = "write_wages"
                      THEN CreateWageLookupFile(wages, Range(common_socs))
                      ELSE wage_lookup
    /\ county_index' = IF stage = "write_counties"
                       THEN CreateCountySearchIndex(geography)
                       ELSE county_index
    /\ occ_list' = IF stage = "write_occupations"
                   THEN OccList(common_socs, occupations)
                   ELSE occ_list
    /\ UNCHANGED <<common_socs, geoVars, occVars, wageVars>>

Write(stage) ==
    /\ pc = stage
    /\ Prepare(stage)
    /\ files' = Append(files, [name |-> FileOf(stage), complete |-> TRUE])
    /\ pc' = StageAfter(stage)
    /\ log' = Append(log, FileOf(stage))
    /\ UNCHANGED err

\* lines 171-174
WriteWages == Write("write_wages")

\* lines 178-180
WriteGeography == Write("write_geography")

\* lines 184-187
WriteCounties == Write("write_counties")

\* lines 191-194
WriteOccupations == Write("write_occupations")

\* open(..., 'w') or json.dump raises: the file is not there, or is there in part
WriteFails ==
    /\ pc \in WriteStages
    /\ Prepare(pc)
    /\ \E opened \in BOOLEAN :
        files' = IF opened
                 THEN Append(files, [name |-> FileOf(pc), complete |-> FALSE])
                 ELSE files
    /\ pc' = "aborted"
    /\ err' = "OSError"
    /\ UNCHANGED log

----------------------------------------------------------------------------
(* The input files the specifications draw from.  A file is the sequence of *)
(* rows read before the reader is exhausted; each set below gives the rows  *)
(* that may come next.                                                      *)

GeoRow(area, name, state, county) ==
    [Area |-> area, AreaName |-> name, StateAb |-> state, CountyTownName |-> county]

OccRow(code, title) == [soccode |-> code, Title |-> title]

WageRow(area, soc, levels) == [Area |-> area, SocCode |-> soc, levels |-> levels]

\* the example row of the documentation: 38.50, 48.20, 57.90, 67.60
LevelsExample ==
    <<Str(<<"3", "8", ".", "5", "0">>), Str(<<"4", "8", ".", "2", "0">>),
      Str(<<"5", "7", ".", "9", "0">>), Str(<<"6", "7", ".", "6", "0">>)>>

\* 0.015625 and 0.046875 are 32.5 and 97.5 hours-years: ties, exact in binary
LevelsTies ==
    <<Str(<<"0", ".", "0", "1", "5", "6", "2", "5">>),
      Str(<<"0", ".", "0", "4", "6", "8", "7", "5">>),
      Str(<<" ", "1", " ">>), Str(<<"+", "1", ".", "5">>)>>

LevelsNegative ==
    <<Str(<<"-", "1", ".", "0", "0">>), Str(<<"4", "8", ".", "2", "0">>),
      Str(<<"5", "7", ".", "9", "0">>), Str(<<"6", "7", ".", "6", "0">>)>>

LevelsNotNumber ==
    <<Str(<<"3", "8", ".", "5", "0">>), Str(<<"N", "/", "A">>),
      Str(<<"5", "7", ".", "9", "0">>), Str(<<"6", "7", ".", "6", "0">>)>>

\* a row one field shorter than the header
LevelsShort ==
    <<Str(<<"3", "8", ".", "5", "0">>), Str(<<"4", "8", ".", "2", "0">>),
      Str(<<"5", "7", ".", "9", "0">>), NoneField>>

\* a row two fields shorter than the header, after an empty field
LevelsEmptyShort ==
    <<Str(<<"3", "8", ".", "5", "0">>), Str(<<>>), NoneField, NoneField>>

LevelsNan ==
    <<Str(<<"n", "a", "n">>), Str(<<"4", "8", ".", "2", "0">>),
      Str(<<"5", "7", ".", "9", "0">>), Str(<<"6", "7", ".", "6", "0">>)>>

LevelsInf ==
    <<Str(<<"3", "8", ".", "5", "0">>), Str(<<"4", "8", ".", "2", "0">>),
      Str(<<"5", "7", ".", "9", "0">>), Str(<<"i", "n", "f">>)>>

LevelTexts ==
    {LevelsExample, LevelsTies, LevelsNegative, LevelsNotNumber, LevelsShort,
     LevelsEmptyShort, LevelsNan, LevelsInf}

Upto(read, max, rows) == IF Len(read) < max THEN rows ELSE {}

\* a file that is empty or holds one row
AtMostOne(read, rows) == IF read = <<>> THEN rows ELSE {}

(* A whole run over small files *)
GeoMinorRows == {GeoRow("A1", "N1", "CA", "Kent")}
OccRunRows == {OccRow("S1", "T1"), OccRow("S1", "T2"), OccRow("S2", "T1")}
WageRunRows == {WageRow(a, c, LevelsExample) : a \in {"A1", "A2"}, c \in {"S1", "S2"}}

(* Geography files *)
GeoRichRows ==
    {GeoRow(a, n[1], n[2], c) : a \in {"A1", "A2"},
                                n \in {<<"N1", "CA">>, <<"N2", "NV">>},
                                c \in {"Kent", "Lake"}}
OccMinorRows == {OccRow("S1", "T1")}
WageMinorRows == {WageRow("A1", "S1", LevelsExample)}

(* Wage files *)
WageRichRows ==
    {WageRow(p[1], p[2], l) : p \in {<<"A1", "S1">>, <<"A1", "S2">>, <<"A2", "S1">>},
                              l \in LevelTexts}

(* Wage files with more occupation codes than are selected: BigCodes rows of *)
(* area A1, one per code, and then rows of other areas, for a code A1 has   *)
(* or for one more code                                                     *)
Code(i) == "S" \o ToString(i)

WageBigRows ==
    LET n == Len(wageRows)
    IN  IF n < BigCodes THEN {WageRow("A1", Code(n + 1), LevelsExample)}
        ELSE IF n < BigCodes + BigExtraRows
        THEN {WageRow(a, Code(i), LevelsExample) :
                  a \in {"A2", "A3"}, i \in {2, TopN, BigCodes, BigCodes + 1}}
        ELSE {}

----------------------------------------------------------------------------
(* The run *)

\* the steps of main() that read no input row
Step ==
    \/ OpenFails
    \/ OpenGeography \/ GeographyLoaded
    \/ OpenOccupations \/ OccupationsLoaded
    \/ OpenWages \/ WagesLoaded
    \/ SelectOccupations
    \/ WriteWages \/ WriteGeography \/ WriteCounties \/ WriteOccupations
    \/ WriteFails

Next ==
    \/ Step
    \/ LoadGeographyRow(AtMostOne(geoRows, GeoMinorRows))
    \/ LoadOccupationRow(Upto(occRows, MaxOccRows, OccRunRows))
    \/ LoadWageRow(Upto(wageRows, MaxRunWageRows, WageRunRows))

Spec == Init /\ [][Next]_vars

NextGeo ==
    \/ Step
    \/ LoadGeographyRow(Upto(geoRows, MaxGeoRows, GeoRichRows))
    \/ LoadOccupationRow(AtMostOne(occRows, OccMinorRows))
    \/ LoadWageRow(AtMostOne(wageRows, WageMinorRows))

SpecGeo == Init /\ [][NextGeo]_vars

NextWages ==
    \/ Step
    \/ LoadGeographyRow(AtMostOne(geoRows, GeoMinorRows))
    \/ LoadOccupationRow(AtMostOne(occRows, OccMinorRows))
    \/ LoadWageRow(Upto(wageRows, MaxWageRows, WageRichRows))

SpecWages == Init /\ [][NextWages]_vars

NextSel ==
    \/ Step
    \/ LoadGeographyRow(AtMostOne(geoRows, GeoMinorRows))
    \/ LoadOccupationRow(AtMostOne(occRows, OccMinorRows))
    \/ LoadWageRow(WageBigRows)

SpecSel == Init /\ [][NextSel]_vars

----------------------------------------------------------------------------
(* Properties of load_wages, checked under SpecWages *)

Last(s) == s[Len(s)]

Completed(stage) == stage \in Range(log)

\* a level that does not parse as a number, or whose column or field is absent
Unparsable(cols, row) ==
    \E n \in 1..4 :
        \/ LevelColumns[n] \notin cols
        \/ row.levels[n].kind = "None"
        \/ ParseFloat(row.levels[n].text).kind = "error"

\* C1: a wage row with a level that does not parse, or with a level column or
\* field absent, is skipped: no error surfaces, the wage table stays as it
\* was, and the loader goes on to the next row.
C1_UnparsableRowSkipped ==
    [][(/\ pc = "read_wages"
        /\ wageRows' # wageRows
        /\ {"Area", "SocCode"} \subseteq wageCols'
        /\ Unparsable(wageCols', Last(wageRows')))
       => (err' = "" /\ pc' = "read_wages" /\ wages' = wages)]_vars

\* every column is there and the four levels are finite numbers
FullyParsed(row) ==
    /\ WageColumns \subseteq wageCols
    /\ \A n \in 1..4 : /\ row.levels[n].kind = "str"
                       /\ ParseFloat(row.levels[n].text).kind = "num"

\* v is the integer nearest to hourly * 2080, the even one of two equally near
NearestEven(v, hourly) ==
    LET diff == v * hourly.den - hourly.num * 2080
    IN  /\ 2 * diff <= hourly.den
        /\ 2 * diff >= -hourly.den
        /\ (2 * diff = hourly.den \/ 2 * diff = -hourly.den) => v % 2 = 0

AnnualOf(rec, row) ==
    /\ NearestEven(rec.l1, ParseFloat(row.levels[1].text))
    /\ NearestEven(rec.l2, ParseFloat(row.levels[2].text))
    /\ NearestEven(rec.l3, ParseFloat(row.levels[3].text))
    /\ NearestEven(rec.l4, ParseFloat(row.levels[4].text))

GoodRows(area, soc) ==
    {i \in 1..Len(wageRows) : /\ wageRows[i].Area = area
                              /\ wageRows[i].SocCode = soc
                              /\ FullyParsed(wageRows[i])}

Max(S) == CHOOSE x \in S : \A y \in S : y <= x

Recorded(area, soc) == Has(wages, area) /\ Has(Get(wages, area), soc)

\* C2: the wage table holds, for every (area, occupation) pair, the record of
\* the last row of the pair whose four levels all parsed, each level the
\* round-half-to-even of hourly * 2080 (38.50, 48.20, 57.90, 67.60 give
\* 80080, 100256, 120432, 140608); a pair with no such row is absent, and an
\* unparsable later row changes nothing.
C2_LastParsedRowRounded ==
    \A area \in {wageRows[i].Area : i \in 1..Len(wageRows)} \cup KeySet(wages) :
      \A soc \in {wageRows[i].SocCode : i \in 1..Len(wageRows)}
                 \cup UNION {KeySet(wages[a].v) : a \in 1..Len(wages)} :
        LET good == GoodRows(area, soc)
        IN  IF good = {} THEN ~Recorded(area, soc)
            ELSE /\ Recorded(area, soc)
                 /\ AnnualOf(Get(Get(wages, area), soc), wageRows[Max(good)])
                 /\ wageRows[Max(good)].levels = LevelsExample
                    => Get(Get(wages, area), soc) =
                           [l1 |-> 80080, l2 |-> 100256, l3 |-> 120432, l4 |-> 140608]

\* the loader returned a table in which a later row replaced an earlier record
\* of its pair with levels rounded from ties, and the pair's unparsable row
\* after it changed nothing
C2_Witness ==
    /\ Completed("wages")
    /\ \E i, j \in 1..Len(wageRows) :
        /\ i < j
        /\ wageRows[i].Area = wageRows[j].Area
        /\ wageRows[i].SocCode = wageRows[j].SocCode
        /\ wageRows[i].levels = LevelsExample
        /\ wageRows[j].levels = LevelsTies
        /\ Recorded(wageRows[j].Area, wageRows[j].SocCode)
        /\ Get(Get(wages, wageRows[j].Area), wageRows[j].SocCode) =
               [l1 |-> 32, l2 |-> 98, l3 |-> 2080, l4 |-> 3120]

\* C3: every wage level of the wage table, and so every number of
\* wages.json, is a non-negative integer, whatever the wage file holds.
C3_LevelsNonNegative ==
    /\ \A a \in 1..Len(wages) : \A i \in 1..Len(wages[a].v) :
        LET rec == wages[a].v[i].v
        IN  rec.l1 >= 0 /\ rec.l2 >= 0 /\ rec.l3 >= 0 /\ rec.l4 >= 0
    /\ \A a \in 1..Len(wage_lookup) : \A i \in 1..Len(wage_lookup[a].v) :
        \A n \in 1..4 : wage_lookup[a].v[i].v[n] >= 0

----------------------------------------------------------------------------
(* Properties of the selection and of wages.json, checked under SpecSel *)

AllCodes == UNION {KeySet(wages[a].v) : a \in 1..Len(wages)}

\* the number of areas that report code c
Coverage(c) == Cardinality({a \in 1..Len(wages) : Has(wages[a].v, c)})

\* where code c is first met when the areas and their occupations are
\* iterated: the first area that has it, and its place in that area
FirstArea(c) ==
    CHOOSE a \in 1..Len(wages) :
        /\ Has(wages[a].v, c)
        /\ \A b \in 1..(a - 1) : ~Has(wages[b].v, c)

PlaceIn(c) ==
    LET socs == wages[FirstArea(c)].v
    IN  CHOOSE i \in 1..Len(socs) : socs[i].k = c

\* code c comes before code d: more areas, or as many and met earlier
Ahead(c, d) ==
    \/ Coverage(c) > Coverage(d)
    \/ /\ Coverage(c) = Coverage(d)
       /\ \/ FirstArea(c) < FirstArea(d)
          \/ FirstArea(c) = FirstArea(d) /\ PlaceIn(c) < PlaceIn(d)

\* C4: the selection is the first min(100, n) of the n codes of the wage
\* table, ordered by descending number of areas reporting the code, codes of
\* equal count in the order they were first met; it has at most 100 codes and
\* no code twice.
C4_SelectionIsTopByCoverage ==
    Completed("select") =>
        /\ Len(common_socs) = Min(100, Cardinality(AllCodes))
        /\ Range(common_socs) \subseteq AllCodes
        /\ \A i \in 1..(Len(common_socs) - 1) :
               Ahead(common_socs[i], common_socs[i + 1])
        /\ \A c \in AllCodes \ Range(common_socs) :
               Ahead(common_socs[Len(common_socs)], c)

\* more than 100 codes were seen; one met after 100 others, reported by two
\* areas, was selected first, and the code met 100th, of one area, was left out
C4_Witness ==
    /\ Completed("select")
    /\ Cardinality(AllCodes) > 100
    /\ Len(common_socs) = 100
    /\ common_socs[1] = Code(101)
    /\ common_socs[2] = Code(1)
    /\ Code(100) \notin Range(common_socs)

\* C5: wages.json has an area key exactly for the areas with a record of a
\* selected code, and under it exactly the area's records of selected codes,
\* each as [l1, l2, l3, l4]; no area maps to an empty map, no unselected
\* code appears.
C5_LookupHoldsSelectedRecords ==
    Completed("wages.json") =>
        LET selected == Range(common_socs)
        IN  /\ KeySet(wage_lookup) =
                   {wages[a].k : a \in {b \in 1..Len(wages) :
                                           KeySet(wages[b].v) \cap selected # {}}}
            /\ \A a \in 1..Len(wage_lookup) :
                   LET area == wage_lookup[a].k
                       out  == wage_lookup[a].v
                   IN  /\ out # <<>>
                       /\ KeySet(out) = KeySet(Get(wages, area)) \cap selected
                       /\ \A i \in 1..Len(out) :
                              LET rec == Get(Get(wages, area), out[i].k)
                              IN  out[i].v = <<rec.l1, rec.l2, rec.l3, rec.l4>>

\* wages.json was written without an area whose only code was not selected,
\* and without the unselected code of an area that is in it
C5_Witness ==
    /\ Completed("wages.json")
    /\ \E a \in 1..Len(wages) : ~Has(wage_lookup, wages[a].k)
    /\ \E a \in 1..Len(wage_lookup) :
           KeySet(Get(wages, wage_lookup[a].k)) # KeySet(wage_lookup[a].v)

----------------------------------------------------------------------------
(* Properties of occupations.json and of the run, checked under Spec *)

\* where code c stands in the selection
SelectedAt(c) == CHOOSE i \in 1..Len(common_socs) : common_socs[i] = c

MappedCodes == {occRows[r].soccode : r \in 1..Len(occRows)}

LastTitle(c) == occRows[Max({r \in 1..Len(occRows) : occRows[r].soccode = c})].Title

\* C6: occupations.json is the selection with the codes that have no title
\* removed and the order of the others kept, each entry {code, title} with
\* the title of the last row of the code; so it is in descending order of
\* area coverage.
C6_ListIsSelectionWithTitles ==
    Completed("occupations.json") =>
        /\ {occ_list[i].code : i \in 1..Len(occ_list)} = Range(common_socs) \cap MappedCodes
        /\ \A i \in 1..Len(occ_list) : occ_list[i].title = LastTitle(occ_list[i].code)
        /\ \A i, j \in 1..Len(occ_list) :
               i < j => /\ SelectedAt(occ_list[i].code) < SelectedAt(occ_list[j].code)
                        /\ Coverage(occ_list[i].code) >= Coverage(occ_list[j].code)

\* occupations.json was written from a selection of two codes, the first
\* without a title and so left out, the second with the title of the later of
\* its two rows
C6_Witness ==
    /\ Completed("occupations.json")
    /\ Len(common_socs) = 2
    /\ common_socs[1] \notin MappedCodes
    /\ Len(occ_list) = 1
    /\ occ_list[1].code = common_socs[2]
    /\ Len(occRows) = 2
    /\ occRows[1].Title # occRows[2].Title
    /\ occ_list[1].title = occRows[2].Title

\* code c is reported by more areas than any other code
HighestCoverage(c) == \A d \in AllCodes \ {c} : Coverage(c) > Coverage(d)

\* C7: a code of the wage data that is reported by more areas than any other
\* code is the first entry of occupations.json.
C7_HighestCoverageIsFirst ==
    Completed("occupations.json") =>
        \A c \in AllCodes :
            HighestCoverage(c) => occ_list # <<>> /\ occ_list[1].code = c

\* C7, amended: a code of the wage data that is reported by more areas than
\* any other code, and that has a title in the occupation file, is the first
\* entry of occupations.json.
C7_TitledHighestCoverageIsFirst ==
    Completed("occupations.json") =>
        \A c \in AllCodes :
            HighestCoverage(c) /\ Has(occupations, c)
                => occ_list # <<>> /\ occ_list[1].code = c

\* occupations.json begins with a titled code of two areas that was met after
\* a code of one area
C7_Witness ==
    /\ Completed("occupations.json")
    /\ \E c \in AllCodes :
        /\ HighestCoverage(c)
        /\ Has(occupations, c)
        /\ AllCodes # {c}
        /\ wages[1].v[1].k # c
        /\ occ_list[1].code = c

StageOrder ==
    <<"geography", "occupations", "wages", "select",
      "wages.json", "geography.json", "counties.json", "occupations.json">>

OutputOrder == <<"wages.json", "geography.json", "counties.json", "occupations.json">>

IsPrefix(s, t) == Len(s) <= Len(t) /\ \A i \in 1..Len(s) : s[i] = t[i]

\* C10: the stages complete in the order geography, occupations, wages,
\* selection, wages.json, geography.json, counties.json, occupations.json; a
\* file is read only after the file before it was read to its end; no output
\* is written before the three inputs are loaded, so a run ended by an input
\* error has written nothing, and a run ended while writing has written a
\* prefix of the outputs.
C10_StagesInOrder ==
    /\ IsPrefix(log, StageOrder)
    /\ occRows # <<>> => Completed("geography")
    /\ wageRows # <<>> => Completed("occupations")
    /\ common_socs # <<>> => Completed("wages")
    /\ IsPrefix([i \in 1..Len(files) |-> files[i].name], OutputOrder)
    /\ files # <<>> => /\ Completed("geography")
                       /\ Completed("occupations")
                       /\ Completed("wages")
                       /\ Completed("select")
    /\ \A i \in 1..Len(files) :
           IF files[i].complete THEN Completed(files[i].name)
           ELSE i = Len(files) /\ pc = "aborted" /\ err = "OSError"
    /\ err \in {"FileNotFoundError", "KeyError", "TypeError", "OverflowError"}
           => files = <<>>
    /\ pc = "done" => log = StageOrder /\ err = ""

\* the run ended while writing counties.json, after the two outputs before it
C10_Witness ==
    /\ pc = "aborted"
    /\ err = "OSError"
    /\ Len(files) = 3
    /\ files[3] = [name |-> "counties.json", complete |-> FALSE]
    /\ wageRows # <<>>

----------------------------------------------------------------------------
(* Properties of load_geography and of counties.json, checked under SpecGeo *)

\* the rows load_geography took in: none of a file whose header lacks a column
GeoLoaded == IF GeoColumns \subseteq geoCols THEN geoRows ELSE <<>>

RowsOf(area) == {r \in 1..Len(GeoLoaded) : GeoLoaded[r].Area = area}

Min1(S) == CHOOSE x \in S : \A y \in S : x <= y

IsAreaRow(row, area) == row.Area = area

\* the areas that produce a search key, by their place in the geography mapping
Producers(key) ==
    {a \in 1..Len(geography) :
        \E i \in 1..Len(geography[a].v.counties) :
            SearchKey(geography[a].v.counties[i], geography[a].v.state) = key}

\* C8: counties.json has the key "<county>, <state>" for every county of every
\* area of the geography mapping; every entry's area is a key of
\* geography.json; a key that several areas produce holds the entry of the
\* area that is last in the mapping's iteration order.
C8_IndexCoversCountiesLastAreaWins ==
    Completed("counties.json") =>
        /\ \A a \in 1..Len(geography) :
               \A i \in 1..Len(geography[a].v.counties) :
                   Has(county_index,
                       SearchKey(geography[a].v.counties[i], geography[a].v.state))
        /\ \A e \in 1..Len(county_index) :
               LET key   == county_index[e].k
                   entry == county_index[e].v
               IN  /\ Has(geography, entry.area)
                   /\ key = SearchKey(entry.county, entry.state)
                   /\ Producers(key) # {}
                   /\ entry.area = geography[Max(Producers(key))].k
                   /\ entry.areaName = Get(geography, entry.area).areaName
                   /\ entry.state = Get(geography, entry.area).state

\* two areas produce one key, and the entry kept is that of the area later in
\* the mapping, though the last row of the file with that county is of the
\* other area
C8_Witness ==
    /\ Completed("counties.json")
    /\ Len(geography) = 2
    /\ \E e \in 1..Len(county_index) :
        /\ Producers(county_index[e].k) = {1, 2}
        /\ county_index[e].v.area = geography[2].k
        /\ Last(geoRows).CountyTownName = county_index[e].v.county
        /\ Last(geoRows).StateAb = county_index[e].v.state
        /\ Last(geoRows).Area = geography[1].k

\* C9: each area has the areaName and state of its first row and, as its
\* counties, the CountyTownName of each of its rows in input order,
\* duplicates kept; each list of the reverse index, keyed by the row's own
\* "county|state", holds each area once, in first-seen order.
C9_GeographyFirstSeenCountiesInOrder ==
    /\ KeySet(geography) = {GeoLoaded[r].Area : r \in 1..Len(GeoLoaded)}
    /\ \A a \in 1..Len(geography) :
           LET area     == geography[a].k
               data     == geography[a].v
               first    == GeoLoaded[Min1(RowsOf(area))]
               keep(row) == IsAreaRow(row, area)
               rows     == SelectSeq(GeoLoaded, keep)
           IN  /\ data.areaName = first.AreaName
               /\ data.state = first.StateAb
               /\ data.counties = [i \in 1..Len(rows) |-> rows[i].CountyTownName]
               /\ \A b \in 1..(a - 1) :
                      Min1(RowsOf(geography[b].k)) < Min1(RowsOf(area))
    /\ KeySet(county_to_area) =
           {CountyKey(GeoLoaded[r].CountyTownName, GeoLoaded[r].StateAb) :
                r \in 1..Len(GeoLoaded)}
    /\ \A e \in 1..Len(county_to_area) :
           LET key      == county_to_area[e].k
               areas    == county_to_area[e].v
               seen(ar) == {r \in 1..Len(GeoLoaded) :
                               /\ GeoLoaded[r].Area = ar
                               /\ CountyKey(GeoLoaded[r].CountyTownName,
                                            GeoLoaded[r].StateAb) = key}
           IN  /\ Range(areas) = {GeoLoaded[r].Area : r \in
                                    {q \in 1..Len(GeoLoaded) :
                                        CountyKey(GeoLoaded[q].CountyTownName,
                                                  GeoLoaded[q].StateAb) = key}}
               /\ \A i, j \in 1..Len(areas) :
                      i < j => /\ areas[i] # areas[j]
                               /\ Min1(seen(areas[i])) < Min1(seen(areas[j]))

\* an area kept the name and state of its first row though a later row of it
\* had others, its counties hold a name twice, and a reverse-index list holds
\* two areas
C9_Witness ==
    /\ Completed("geography")
    /\ Len(geoRows) = 3
    /\ geoRows[1].Area = geoRows[2].Area
    /\ geoRows[1].AreaName # geoRows[2].AreaName
    /\ geoRows[1].StateAb # geoRows[2].StateAb
    /\ geoRows[1].CountyTownName = geoRows[2].CountyTownName
    /\ Has(geography, geoRows[1].Area)
    /\ Get(geography, geoRows[1].Area) =
           [areaName |-> geoRows[1].AreaName, state |-> geoRows[1].StateAb,
            counties |-> <<geoRows[1].CountyTownName, geoRows[1].CountyTownName>>]
    /\ \E e \in 1..Len(county_to_area) : Len(county_to_area[e].v) = 2

====
